---- MODULE Spec2Model ----
(***************************************************************************)
(* Model of the VPW toolkit: the contest file harness (class VPWParser of  *)
(* vpw-core), the ranking routine and the slalom path search.              *)
(*                                                                         *)
(* Text is modelled as sequences of one-character strings, so that the     *)
(* JavaScript conversions the harness relies on (trim, parseInt, Number,   *)
(* String) are computed character by character.                           *)
(***************************************************************************)
EXTENDS Integers, Sequences, FiniteSets, TLC

(***************************************************************************)
(* Bounds of the model.                                                    *)
(***************************************************************************)
MaxLines == 3        \* lines of an input file (format specification)
MaxRunLines == 3     \* lines of an input file (run specification)
MaxOutLines == 3     \* lines of an output file (run specification)
MaxParticipants == 4 \* length of a participants list
MaxCells == 8        \* number of cells of a slalom matrix

(***************************************************************************)
(* Characters and text.                                                    *)
(***************************************************************************)
Digits == <<"0", "1", "2", "3", "4", "5", "6", "7", "8", "9">>

IsDigit(c) == \E d \in 1..Len(Digits) : Digits[d] = c

DigitVal(c) == (CHOOSE d \in 1..Len(Digits) : Digits[d] = c) - 1

DigitChar(d) == Digits[d + 1]

\* The value lines[i] takes when i is past the end of the array.
Undefined == <<"undefined">>

\* The not-a-number result of parseInt and Number; a number n is {n}.
NaN == {}

isNaN(x) == x = NaN

RECURSIVE TrimStart(_)
TrimStart(s) ==
    IF s # <<>> /\ Head(s) = " " THEN TrimStart(Tail(s)) ELSE s

RECURSIVE TrimEnd(_)
TrimEnd(s) ==
    IF s # <<>> /\ s[Len(s)] = " " THEN TrimEnd(SubSeq(s, 1, Len(s) - 1)) ELSE s

\* String.prototype.trim
Trim(s) == TrimEnd(TrimStart(s))

\* The longest prefix of s made of decimal digits.
RECURSIVE DigitPrefix(_)
DigitPrefix(s) ==
    IF s # <<>> /\ IsDigit(Head(s)) THEN <<Head(s)>> \o DigitPrefix(Tail(s)) ELSE <<>>

\* The value of a sequence of decimal digits (0 for the empty sequence).
RECURSIVE DigitsValue(_)
DigitsValue(ds) ==
    IF ds = <<>> THEN 0
    ELSE 10 * DigitsValue(SubSeq(ds, 1, Len(ds) - 1)) + DigitVal(ds[Len(ds)])

\* parseInt(s, 10): leading white space, an optional sign, then the longest
\* run of digits; what follows the digits is ignored.
ParseInt(s) ==
    LET t == TrimStart(s)
        neg == t # <<>> /\ Head(t) = "-"
        body == IF t # <<>> /\ Head(t) \in {"-", "+"} THEN Tail(t) ELSE t
        ds == DigitPrefix(body)
    IN  IF ds = <<>> THEN NaN
        ELSE {IF neg THEN 0 - DigitsValue(ds) ELSE DigitsValue(ds)}

\* The decimal digits of a natural number.
RECURSIVE NatToString(_)
NatToString(n) ==
    IF n < 10 THEN <<DigitChar(n)>>
    ELSE NatToString(n \div 10) \o <<DigitChar(n % 10)>>

\* String(n) for an integer n.
IntToString(n) ==
    IF n < 0 THEN <<"-">> \o NatToString(0 - n) ELSE NatToString(n)

RECURSIVE Pow10(_)
Pow10(k) == IF k = 0 THEN 1 ELSE 10 * Pow10(k - 1)

\* A decimal number m / 10^k with the trailing zeros of its fraction removed.
RECURSIVE Normalize(_, _)
Normalize(m, k) ==
    IF k > 0 /\ m % 10 = 0 THEN Normalize(m \div 10, k - 1) ELSE <<m, k>>

\* Number(s): the whole trimmed text must be a decimal literal (an optional
\* sign, digits, an optional fraction); the empty text is 0. The value is the
\* pair <<m, k>> standing for m / 10^k.
Number(s) ==
    LET t == Trim(s)
        neg == t # <<>> /\ Head(t) = "-"
        body == IF t # <<>> /\ Head(t) \in {"-", "+"} THEN Tail(t) ELSE t
        ip == DigitPrefix(body)
        rest == SubSeq(body, Len(ip) + 1, Len(body))
        hasDot == rest # <<>> /\ Head(rest) = "."
        fp == IF hasDot THEN DigitPrefix(Tail(rest)) ELSE <<>>
        whole == IF hasDot THEN Len(rest) = 1 + Len(fp) ELSE rest = <<>>
        mag == DigitsValue(ip \o fp)
    IN  IF t = <<>> THEN {<<0, 0>>}
        ELSE IF ~whole \/ (ip = <<>> /\ fp = <<>>) THEN NaN
        ELSE {Normalize(IF neg THEN 0 - mag ELSE mag, Len(fp))}

\* The digits of n, padded on the left with zeros to width w.
RECURSIVE PadDigits(_, _)
PadDigits(n, w) ==
    IF w = 0 THEN <<>> ELSE PadDigits(n \div 10, w - 1) \o <<DigitChar(n % 10)>>

\* String(x) for a number x = <<m, k>> in normal form.
NumberToString(x) ==
    LET m == x[1]
        k == x[2]
        a == IF m < 0 THEN 0 - m ELSE m
        sign == IF m < 0 THEN <<"-">> ELSE <<>>
    IN  IF k = 0 THEN sign \o NatToString(a)
        ELSE sign \o NatToString(a \div Pow10(k)) \o <<".">> \o PadDigits(a % Pow10(k), k)

\* The element of a one-element set.
ValueOf(x) == CHOOSE v \in x : TRUE

\* All sequences over S of length at most n.
SeqsUpTo(S, n) == UNION {[1..k -> S] : k \in 0..n}

\* SelectSeq with the filter of Array.prototype.filter(line => line.trim() !== '').
NonBlank(content) == SelectSeq(content, LAMBDA line : Trim(line) # <<>>)


(***************************************************************************)
(* The harness: state of a VPWParser instance.                             *)
(***************************************************************************)
VARIABLES
    inputContent,         \* the text of the input file, split at '\n'
    outputContent,        \* the text of the output file, split at '\n'
    readInputCasesNumber, \* constructor flag: the input starts with a count
    parseInputStrict,     \* the caller's parseInput throws on undefined
    phase,                \* "constructed", "initialized" or "failed"
    initError,            \* the error initialize() ended with, or "none"
    inputs,               \* this.inputs
    outputs,              \* this.outputs
    testCount,            \* this.testCount
    inputs_with_errors,   \* this.inputs_with_errors
    lastRun,              \* "none", "groups" or "single": the last run call
    visited,              \* indices the transform was invoked on, last run
    reported,             \* indices reported as failed, last run
    raisedAt,             \* index the last run raised at, 0 if it returned
    events                \* what initialize() did, in order

hvars == <<inputContent, outputContent, readInputCasesNumber, parseInputStrict,
           phase, initError, inputs, outputs, testCount, inputs_with_errors,
           lastRun, visited, reported, raisedAt, events>>

\* The lines an input file is made of in the format specification.
LineSet ==
    { <<"3">>, <<"0", "3">>, <<"3", ".", "0">>, <<"0">>, <<"-", "2">>,
      <<"1">>, <<"a">>, <<" ">> }

\* The lines an input file is made of in the run specification.
RunLineSet == { <<"a">>, <<"1">> }

\* The lines of an output file: "<index> <value>".
OutLineSet ==
    { <<"1", " ", "0">>, <<"1", " ", "1">>, <<"2", " ", "1">>, <<"3", " ", "1">> }

\* lines[i] of a JavaScript array, 0-based.
LineAt(lines, i) == IF i + 1 \in 1..Len(lines) THEN lines[i + 1] ELSE Undefined

\* The caller's input-line parse function: the record made from a line.
parseInput(line) == [raw |-> line]

\* The caller's parseInput fails on this argument.
ParseInputThrows(line, strict) == strict /\ line = Undefined

\* The position of the first blank of s, Len(s) + 1 if it has none.
RECURSIVE FirstBlank(_, _)
FirstBlank(s, i) ==
    IF i > Len(s) \/ s[i] = " " THEN i ELSE FirstBlank(s, i + 1)

\* The caller's output-line parse function: "<index> <value>" as a pair of
\* numbers.
parseOutput(line) ==
    LET b == FirstBlank(line, 1)
    IN  <<ValueOf(ParseInt(SubSeq(line, 1, b - 1))),
          ValueOf(ParseInt(SubSeq(line, b + 1, Len(line))))>>

\* The default equality predicate of the constructor.
compareOutputs(actual, expected) == actual = expected

\* Simple-numeric classifier: every line is a number that round-trips.
IsSimpleNumbersFile(lines) ==
    \A i \in 1..Len(lines) :
        /\ ~isNaN(Number(lines[i]))
        /\ Trim(lines[i]) = NumberToString(ValueOf(Number(lines[i])))

\* The test of the grouped branch: the line is a group-size marker.
IsGroupMarker(line) ==
    /\ ~isNaN(ParseInt(line))
    /\ IntToString(ValueOf(ParseInt(line))) = Trim(line)

\* Variant of the no-count test without the comparison with 1.
LooksGrouped_AnyInteger(line) ==
    /\ ~isNaN(ParseInt(line))
    /\ IntToString(ValueOf(ParseInt(line))) = Trim(line)

\* The test of the no-count branch: the line asks for a group.
LooksGrouped(line) ==
    /\ ~isNaN(ParseInt(line))
    /\ IntToString(ValueOf(ParseInt(line))) = Trim(line)
    /\ ValueOf(ParseInt(line)) > 1

\* testCase < this.testCount, false when testCount is NaN.
LessThanCount(testCase, count) == ~isNaN(count) /\ testCase < ValueOf(count)

\* The for loop of the grouped branch, from test case testCase on.
RECURSIVE GroupedLoop(_, _, _, _, _, _)
GroupedLoop(lines, count, testCase, currentLine, acc, strict) ==
    IF ~LessThanCount(testCase, count) THEN [inputs |-> acc, error |-> "none"]
    ELSE
        LET line == LineAt(lines, currentLine)
            groupCount == ValueOf(ParseInt(line))
            group == [i \in 1..groupCount |-> parseInput(LineAt(lines, currentLine + i))]
            throws == \E i \in 1..groupCount :
                          ParseInputThrows(LineAt(lines, currentLine + i), strict)
        IN  IF ParseInputThrows(line, strict) THEN [inputs |-> acc, error |-> "parse"]
            ELSE IF IsGroupMarker(line) THEN
                IF throws THEN [inputs |-> acc, error |-> "parse"]
                ELSE GroupedLoop(lines, count, testCase + 1,
                                 currentLine + 1 + (IF groupCount > 0 THEN groupCount ELSE 0),
                                 Append(acc, group), strict)
            ELSE GroupedLoop(lines, count, testCase + 1, currentLine + 1,
                             Append(acc, <<parseInput(line)>>), strict)

\* Variant of the simple-numeric branch that keeps the count line.
SimpleInputLines_KeepsCount(lines, withCount) == lines

\* The lines of the simple-numeric branch: lines.slice(1) under a count line.
SimpleInputLines(lines, withCount) ==
    IF withCount THEN SubSeq(lines, 2, Len(lines)) ELSE lines

\* readInputFile: the new inputs and testCount, and the error it throws.
ReadInputFile(content, withCount, strict, oldInputs, oldCount) ==
    LET lines == NonBlank(content)
        inputLines == SimpleInputLines(lines, withCount)
        single(ls) == [i \in 1..Len(ls) |-> <<parseInput(ls[i])>>]
        count == ParseInt(lines[1])
        loop == GroupedLoop(lines, count, 0, 1, oldInputs, strict)
    IN  IF IsSimpleNumbersFile(lines) THEN
            [inputs |-> single(inputLines), testCount |-> {Len(inputLines)},
             error |-> "none"]
        ELSE IF withCount THEN
            [inputs |-> loop.inputs, testCount |-> count, error |-> loop.error]
        ELSE IF \E i \in 1..Len(lines) : LooksGrouped(lines[i]) THEN
            [inputs |-> oldInputs, testCount |-> oldCount, error |-> "format"]
        ELSE
            [inputs |-> single(lines), testCount |-> {Len(lines)}, error |-> "none"]

\* The forEach of readOutputFile, from line i on.
RECURSIVE ReadOutputLoop(_, _, _)
ReadOutputLoop(lines, i, groupedOutputs) ==
    IF i > Len(lines) THEN groupedOutputs
    ELSE
        LET index == parseOutput(lines[i])[1]
            value == parseOutput(lines[i])[2]
            old == IF index \in DOMAIN groupedOutputs THEN groupedOutputs[index] ELSE <<>>
        IN  ReadOutputLoop(lines, i + 1,
                [k \in DOMAIN groupedOutputs \cup {index} |->
                    IF k = index THEN Append(old, value) ELSE groupedOutputs[k]])

\* readOutputFile: the new Expected Output Map.
ReadOutputFile(content) == ReadOutputLoop(NonBlank(content), 1, <<>>)

\* Variant of validateFileLengths that checks for zero groups only.
ValidateFileLengths_ZeroOnly(ins, outs) ==
    IF Len(ins) = 0 THEN "nocases" ELSE "none"

\* readInputFile calls parseInput at least once.
InputLinesParsed(content, withCount) ==
    LET lines == NonBlank(content)
    IN  IF IsSimpleNumbersFile(lines) THEN SimpleInputLines(lines, withCount) # <<>>
        ELSE IF withCount THEN LessThanCount(0, ParseInt(lines[1]))
        ELSE ~\E i \in 1..Len(lines) : LooksGrouped(lines[i])

\* What readInputFile does, in order: the load, then the parse calls.
ReadInputEvents(content, withCount) ==
    <<"loadInput">> \o
    (IF InputLinesParsed(content, withCount) THEN <<"parseInput">> ELSE <<>>)

\* What readOutputFile does, in order: the load, then the parse calls.
ReadOutputEvents(content) ==
    <<"loadOutput">> \o
    (IF NonBlank(content) # <<>> THEN <<"parseOutput">> ELSE <<>>)

\* validateFileLengths: the error it throws, "none" if it returns.
ValidateFileLengths(ins, outs) ==
    IF Len(ins) = 0 THEN "nocases"
    ELSE IF Len(ins) # Cardinality(DOMAIN outs) THEN "mismatch"
    ELSE "none"


\* The results a group transform may return, and those of a single-value one.
GroupResults == { <<1>>, <<1, 1>> }

SingleResults == {0, 1}

\* JavaScript truthiness of a number.
Falsy(v) == v = 0

\* compareArrays: equal lengths and element-wise compareOutputs.
compareArrays(actual, expected) ==
    IF Len(actual) # Len(expected) THEN FALSE
    ELSE \A i \in 1..Len(actual) : compareOutputs(actual[i], expected[i])

\* Variant of runner's test that looks at the first expected record, as
\* simpleRunner does.
RunnerMissing_FirstRecord(outs, index) ==
    index \notin DOMAIN outs \/ outs[index][1] = 0

\* runner's test for throwing: `!expected` on the result of outputs.get.
RunnerMissing(outs, index) == index \notin DOMAIN outs

\* The forEach of runner from the group of 1-based index i on; fn[i] is what
\* the transform returns for that group.
RECURSIVE RunnerLoop(_, _, _, _, _)
RunnerLoop(ins, outs, fn, i, acc) ==
    IF i > Len(ins) THEN acc
    ELSE IF RunnerMissing(outs, i) THEN [acc EXCEPT !.raisedAt = i]
    ELSE
        LET ok == compareArrays(fn[i], outs[i])
        IN  RunnerLoop(ins, outs, fn, i + 1,
                [acc EXCEPT !.visited = Append(@, i),
                            !.reported = IF ok THEN @ ELSE Append(@, i)])

\* simpleRunner's test for throwing: `!expected` on outputs.get(index)?.[0].
SimpleMissing(outs, index) ==
    \/ index \notin DOMAIN outs
    \/ outs[index] = <<>>
    \/ Falsy(outs[index][1])

\* The forEach of simpleRunner from the group of 1-based index i on.
RECURSIVE SimpleRunnerLoop(_, _, _, _, _)
SimpleRunnerLoop(ins, outs, fn, i, acc) ==
    IF i > Len(ins) THEN acc
    ELSE IF SimpleMissing(outs, i) THEN [acc EXCEPT !.raisedAt = i]
    ELSE
        LET ok == compareOutputs(fn[i], outs[i][1])
        IN  SimpleRunnerLoop(ins, outs, fn, i + 1,
                [acc EXCEPT !.visited = Append(@, i),
                            !.reported = IF ok THEN @ ELSE Append(@, i),
                            !.errors = IF ok THEN @ ELSE Append(@, ins[i])])

\* What a run starts from: inputs_with_errors = [].
RunStart == [visited |-> <<>>, reported |-> <<>>, raisedAt |-> 0, errors |-> <<>>]

\* Variant of runner that leaves this.inputs_with_errors as it is.
RunnerReset_Keeps(old) == old

\* runner's assignment to this.inputs_with_errors at its start.
RunnerReset(old) == <<>>

(***************************************************************************)
(* Actions of the harness.                                                 *)
(***************************************************************************)
HarnessStart(inputFiles, outputFiles, strictness) ==
    /\ inputContent \in inputFiles
    /\ outputContent \in outputFiles
    /\ readInputCasesNumber \in BOOLEAN
    /\ parseInputStrict \in strictness
    /\ phase = "constructed"
    /\ initError = "none"
    /\ inputs = <<>>
    /\ outputs = <<>>
    /\ testCount = {0}
    /\ inputs_with_errors = <<>>
    /\ lastRun = "none"
    /\ visited = <<>>
    /\ reported = <<>>
    /\ raisedAt = 0
    /\ events = <<>>

\* initialize(): readInputFile, readOutputFile, validateFileLengths.
Initialize ==
    /\ phase = "constructed"
    /\ LET r == ReadInputFile(inputContent, readInputCasesNumber, parseInputStrict,
                              inputs, testCount)
           outs == ReadOutputFile(outputContent)
           v == ValidateFileLengths(r.inputs, outs)
       IN  /\ inputs' = r.inputs
           /\ IF r.error # "none"
              THEN /\ initError' = r.error
                   /\ testCount' = r.testCount
                   /\ events' = ReadInputEvents(inputContent, readInputCasesNumber)
                   /\ UNCHANGED outputs
              ELSE /\ initError' = v
                   /\ outputs' = outs
                   /\ events' = ReadInputEvents(inputContent, readInputCasesNumber) \o
                                ReadOutputEvents(outputContent) \o <<"validate">>
                   /\ testCount' = IF v = "none" THEN {Len(r.inputs)} ELSE r.testCount
           /\ phase' = IF initError' = "none" THEN "initialized" ELSE "failed"
    /\ UNCHANGED <<inputContent, outputContent, readInputCasesNumber, parseInputStrict,
                   inputs_with_errors, lastRun, visited, reported, raisedAt>>

\* runner(fn)
Runner ==
    /\ phase = "initialized"
    /\ \E fn \in [1..Len(inputs) -> GroupResults] :
          LET r == RunnerLoop(inputs, outputs, fn, 1, RunStart)
          IN  /\ inputs_with_errors' = RunnerReset(inputs_with_errors)
              /\ lastRun' = "groups"
              /\ visited' = r.visited
              /\ reported' = r.reported
              /\ raisedAt' = r.raisedAt
    /\ UNCHANGED <<inputContent, outputContent, readInputCasesNumber, parseInputStrict,
                   phase, initError, inputs, outputs, testCount, events>>

\* simpleRunner(fn)
SimpleRunner ==
    /\ phase = "initialized"
    /\ \E fn \in [1..Len(inputs) -> SingleResults] :
          LET r == SimpleRunnerLoop(inputs, outputs, fn, 1, RunStart)
          IN  /\ inputs_with_errors' = r.errors
              /\ lastRun' = "single"
              /\ visited' = r.visited
              /\ reported' = r.reported
              /\ raisedAt' = r.raisedAt
    /\ UNCHANGED <<inputContent, outputContent, readInputCasesNumber, parseInputStrict,
                   phase, initError, inputs, outputs, testCount, events>>


(***************************************************************************)
(* ranking(participants)                                                   *)
(***************************************************************************)
VARIABLES
    participants,   \* the argument: a list of <<name, score>>
    rankDone,       \* ranking has returned
    rankResult      \* what it returned: a list of <<rank, name, score>>

rvars == <<participants, rankDone, rankResult>>

NameSet == {"Alice", "Bob"}

ScoreSet == {80, 90, 100}

\* The comparator of the sort: (a, b) => b[1] - a[1].
ByScoreDescending(a, b) == b[2] - a[2]

\* Array.prototype.sort is stable: x goes after every element that does not
\* compare greater than it.
RECURSIVE InsertSorted(_, _)
InsertSorted(sorted, x) ==
    IF sorted = <<>> THEN <<x>>
    ELSE IF ByScoreDescending(Head(sorted), x) > 0 THEN <<x>> \o sorted
    ELSE <<Head(sorted)>> \o InsertSorted(Tail(sorted), x)

RECURSIVE SortParticipants(_)
SortParticipants(ps) ==
    IF ps = <<>> THEN <<>>
    ELSE InsertSorted(SortParticipants(SubSeq(ps, 1, Len(ps) - 1)), ps[Len(ps)])

\* Variant that takes the next rank instead of the position.
RankOnChange_Dense(currentRank, index) == currentRank + 1

\* The rank taken when the score changes, at 0-based position index.
RankOnChange(currentRank, index) == index + 1

\* The map callback of ranking, from 0-based position index on.
RECURSIVE RankLoop(_, _, _, _)
RankLoop(sorted, index, currentRank, previousScore) ==
    IF index >= Len(sorted) THEN <<>>
    ELSE
        LET name == sorted[index + 1][1]
            score == sorted[index + 1][2]
            changed == score < previousScore
            rank == IF changed THEN RankOnChange(currentRank, index) ELSE currentRank
        IN  <<(<<rank, name, score>>)>> \o
            RankLoop(sorted, index + 1, rank, IF changed THEN score ELSE previousScore)

ranking(ps) ==
    LET sorted == SortParticipants(ps)
    IN  IF sorted = <<>> THEN <<>> ELSE RankLoop(sorted, 0, 1, sorted[1][2])

RankingStart ==
    /\ participants \in SeqsUpTo(NameSet \X ScoreSet, MaxParticipants)
    /\ rankDone = FALSE
    /\ rankResult = <<>>

CallRanking ==
    /\ ~rankDone
    /\ rankDone' = TRUE
    /\ rankResult' = ranking(participants)
    /\ UNCHANGED participants

(***************************************************************************)
(* slalom(matrix)                                                          *)
(***************************************************************************)
VARIABLES
    matrix,        \* the argument: a list of rows
    slalomDone,    \* slalom has returned
    slalomResult   \* what it returned

svars == <<matrix, slalomDone, slalomResult>>

CellValues == {-1, 0, 2}

\* -Infinity; a finite score n is {n}.
NegInfinity == {}

\* Math.max of two scores.
MathMax(a, b) ==
    IF a = NegInfinity THEN b
    ELSE IF b = NegInfinity THEN a
    ELSE IF ValueOf(a) >= ValueOf(b) THEN a ELSE b

\* a <= b for a finite a and a score b.
LessOrEqual(a, b) == b # NegInfinity /\ a <= ValueOf(b)

\* Math.max(...row)
RECURSIVE RowMax(_)
RowMax(row) ==
    IF row = <<>> THEN NegInfinity ELSE MathMax({Head(row)}, RowMax(Tail(row)))

\* The pruning bound: currentScore plus maxScorePerRow[r] for r = row..rows-1.
RECURSIVE MaxPossibleScore(_, _, _)
MaxPossibleScore(m, row, currentScore) ==
    IF row >= Len(m) THEN currentScore
    ELSE MaxPossibleScore(m, row + 1, currentScore + ValueOf(RowMax(m[row + 1])))

\* Variant of the memoization key without the score.
MemoKey_NoScore(row, col, currentScore) == <<row, col>>

\* The memoization key `${row},${col},${currentScore}`.
MemoKey(row, col, currentScore) == <<row, col, currentScore>>

\* dfs(row, col, currentScore) with 0-based row and col; st holds the two
\* variables it shares, bestScoreSoFar and memo. The result is the returned
\* score and the variables after the call.
RECURSIVE dfs(_, _, _, _, _)
dfs(m, row, col, currentScore, st) ==
    IF col < 0 \/ col >= Len(m[1]) THEN [score |-> NegInfinity, st |-> st]
    ELSE IF row = Len(m) THEN [score |-> {currentScore}, st |-> st]
    ELSE IF LessOrEqual(MaxPossibleScore(m, row, currentScore), st.bestScoreSoFar)
         THEN [score |-> NegInfinity, st |-> st]
    ELSE IF MemoKey(row, col, currentScore) \in DOMAIN st.memo
         THEN [score |-> st.memo[MemoKey(row, col, currentScore)], st |-> st]
    ELSE
        LET next == currentScore + m[row + 1][col + 1]
            left == dfs(m, row + 1, col - 1, next, st)
            down == dfs(m, row + 1, col, next, left.st)
            right == dfs(m, row + 1, col + 1, next, down.st)
            score == MathMax(MathMax(left.score, down.score), right.score)
            key == MemoKey(row, col, currentScore)
        IN  [score |-> score,
             st |-> [bestScoreSoFar |-> MathMax(right.st.bestScoreSoFar, score),
                     memo |-> [k \in DOMAIN right.st.memo \cup {key} |->
                                  IF k = key THEN score ELSE right.st.memo[k]]]]

\* The loop over the starting columns, from 0-based column col on.
RECURSIVE StartLoop(_, _, _, _)
StartLoop(m, col, maxScore, st) ==
    IF col >= Len(m[1]) THEN maxScore
    ELSE
        LET r == dfs(m, 0, col, 0, st)
        IN  StartLoop(m, col + 1, MathMax(maxScore, r.score), r.st)

slalom(m) ==
    IF Len(m) = 0 THEN {0}
    ELSE StartLoop(m, 0, NegInfinity, [bestScoreSoFar |-> NegInfinity, memo |-> <<>>])

\* The rectangular matrices of at most MaxCells cells, the empty one included.
Matrices ==
    UNION { [1..r -> [1..c -> CellValues]] :
            <<r, c>> \in {rc \in (0..MaxCells) \X (1..MaxCells) : rc[1] * rc[2] <= MaxCells} }

SlalomStart ==
    /\ matrix \in Matrices
    /\ slalomDone = FALSE
    /\ slalomResult = NegInfinity

CallSlalom ==
    /\ ~slalomDone
    /\ slalomDone' = TRUE
    /\ slalomResult' = slalom(matrix)
    /\ UNCHANGED matrix

(***************************************************************************)
(* The streaming runner: readInputFileStream, readOutputFileStream, main.  *)
(***************************************************************************)
MaxTests == 3
MaxSkip == 2

VARIABLES
    skipCases,            \* argument of main
    inputTests,           \* matrices the input file yields before it ends or fails
    inputLineFails,       \* the line after the last matrix raises (currentMatrix[y] undefined)
    outputValues,         \* values the output file yields
    iteratorReturnCloses, \* the runtime's readline iterator closes the reader on return()
    mainState,            \* "ready", "running", "returned", "rejected"
    skipIndex,            \* i of the skip loop
    mainTestCase,         \* testCase of main
    inputStream,          \* the generator made by readInputFileStream
    outputStream          \* the generator made by readOutputFileStream

tvars == <<skipCases, inputTests, inputLineFails, outputValues, iteratorReturnCloses,
           mainState, skipIndex, mainTestCase, inputStream, outputStream>>

\* A generator object before its first next(): its body has not run.
NotStarted == [status |-> "notStarted", yielded |-> 0, rl |-> "none", fileStream |-> "none"]

\* The first next() runs the body from its start: createReadStream, createInterface.
Opened(g) ==
    IF g.status = "notStarted" THEN [g EXCEPT !.rl = "open", !.fileStream = "open"]
    ELSE g

\* The statements after the loop over rl.
CloseAfterLoop(g) == [g EXCEPT !.status = "completed", !.rl = "closed", !.fileStream = "closed"]

\* An error inside the loop over rl: the loop returns rl's iterator, the
\* statements after the loop are not run.
ThrowInLoop(g) ==
    [g EXCEPT !.status = "threw",
              !.rl = IF iteratorReturnCloses THEN "closed" ELSE @]

\* next() of a stream generator that yields records values and then fails or ends.
GeneratorNext(g, records, fails) ==
    IF g.status \in {"completed", "threw"} THEN g
    ELSE LET o == Opened(g)
         IN  IF o.yielded < records
             THEN [o EXCEPT !.status = "suspended", !.yielded = @ + 1]
             ELSE IF fails THEN ThrowInLoop(o)
             ELSE CloseAfterLoop(o)

\* The call of next() rejected.
Rejected(before, after) == before.status # "threw" /\ after.status = "threw"

\* The call of next() gave { done: true }.
Done(after) == after.status \in {"completed", "threw"}

StreamStart ==
    /\ skipCases \in 0..MaxSkip
    /\ inputTests \in 0..MaxTests
    /\ inputLineFails \in BOOLEAN
    /\ outputValues \in 0..MaxTests
    /\ iteratorReturnCloses \in BOOLEAN
    /\ mainState = "ready"
    /\ skipIndex = 0
    /\ mainTestCase = 0
    /\ inputStream = NotStarted
    /\ outputStream = NotStarted

\* main: the two generator objects are made, nothing is opened yet.
MainStart ==
    /\ mainState = "ready"
    /\ mainState' = "running"
    /\ inputStream' = NotStarted
    /\ outputStream' = NotStarted
    /\ skipIndex' = 0
    /\ mainTestCase' = 1
    /\ UNCHANGED <<skipCases, inputTests, inputLineFails, outputValues,
                   iteratorReturnCloses>>

\* main: one turn of the skip loop.
SkipCase ==
    /\ mainState = "running"
    /\ skipIndex < skipCases
    /\ LET g == GeneratorNext(inputStream, inputTests, inputLineFails)
       IN  /\ inputStream' = g
           /\ IF Rejected(inputStream, g)
              THEN /\ mainState' = "rejected"
                   /\ UNCHANGED <<outputStream, skipIndex, mainTestCase>>
              ELSE /\ outputStream' = GeneratorNext(outputStream, outputValues, FALSE)
                   /\ skipIndex' = skipIndex + 1
                   /\ mainTestCase' = mainTestCase + 1
                   /\ UNCHANGED mainState
    /\ UNCHANGED <<skipCases, inputTests, inputLineFails, outputValues,
                   iteratorReturnCloses>>

\* main: one turn of the loop over inputStream.
ProcessCase ==
    /\ mainState = "running"
    /\ ~(skipIndex < skipCases)
    /\ LET g == GeneratorNext(inputStream, inputTests, inputLineFails)
       IN  /\ inputStream' = g
           /\ IF Rejected(inputStream, g)
              THEN /\ mainState' = "rejected"
                   /\ UNCHANGED <<outputStream, mainTestCase>>
              ELSE IF Done(g)
              THEN /\ mainState' = "returned"
                   /\ UNCHANGED <<outputStream, mainTestCase>>
              ELSE /\ outputStream' = GeneratorNext(outputStream, outputValues, FALSE)
                   /\ mainTestCase' = mainTestCase + 1
                   /\ UNCHANGED mainState
    /\ UNCHANGED <<skipCases, inputTests, inputLineFails, outputValues,
                   iteratorReturnCloses, skipIndex>>

\* The file stream reaches the end of its file: it closes itself (autoClose)
\* and the line reader closes on the end of its input.
EndOfFile(g) == [g EXCEPT !.rl = "closed", !.fileStream = "closed"]

InputEndOfFile ==
    /\ inputStream.fileStream = "open"
    /\ inputStream' = EndOfFile(inputStream)
    /\ UNCHANGED <<skipCases, inputTests, inputLineFails, outputValues,
                   iteratorReturnCloses, mainState, skipIndex, mainTestCase, outputStream>>

OutputEndOfFile ==
    /\ outputStream.fileStream = "open"
    /\ outputStream' = EndOfFile(outputStream)
    /\ UNCHANGED <<skipCases, inputTests, inputLineFails, outputValues,
                   iteratorReturnCloses, mainState, skipIndex, mainTestCase, inputStream>>

(***************************************************************************)
(* Specifications.                                                         *)
(***************************************************************************)
vars == <<hvars, rvars, svars, tvars>>

\* The output files of the format specification.
FormatOutputs ==
    { <<(<<"1", " ", "1">>)>>,
      <<(<<"3", " ", "1">>), <<"1", " ", "1">>>>,
      <<(<<"1", " ", "1">>), <<" ">>, <<"2", " ", "1">>>>,
      <<(<<"3", " ", "1">>), <<"1", " ", "1">>, <<"2", " ", "1">>>> }

HarnessIdle ==
    /\ inputContent = <<>>
    /\ outputContent = <<>>
    /\ readInputCasesNumber = TRUE
    /\ parseInputStrict = FALSE
    /\ phase = "unused"
    /\ initError = "none"
    /\ inputs = <<>>
    /\ outputs = <<>>
    /\ testCount = {0}
    /\ inputs_with_errors = <<>>
    /\ lastRun = "none"
    /\ visited = <<>>
    /\ reported = <<>>
    /\ raisedAt = 0
    /\ events = <<>>

RankingIdle == participants = <<>> /\ rankDone = TRUE /\ rankResult = <<>>

SlalomIdle == matrix = <<>> /\ slalomDone = TRUE /\ slalomResult = {0}

StreamIdle ==
    /\ skipCases = 0
    /\ inputTests = 0
    /\ inputLineFails = FALSE
    /\ outputValues = 0
    /\ iteratorReturnCloses = FALSE
    /\ mainState = "unused"
    /\ skipIndex = 0
    /\ mainTestCase = 0
    /\ inputStream = NotStarted
    /\ outputStream = NotStarted

\* The harness on small files, with every output file: the run operations.
Init ==
    /\ HarnessStart(SeqsUpTo(RunLineSet, MaxRunLines), SeqsUpTo(OutLineSet, MaxOutLines),
                    {FALSE})
    /\ RankingIdle
    /\ SlalomIdle
    /\ StreamIdle

Next ==
    \/ Initialize /\ UNCHANGED <<rvars, svars, tvars>>
    \/ Runner /\ UNCHANGED <<rvars, svars, tvars>>
    \/ SimpleRunner /\ UNCHANGED <<rvars, svars, tvars>>

Spec == Init /\ [][Next]_vars

\* The harness on every input file over LineSet: format detection and parsing.
InitFormat ==
    /\ HarnessStart(SeqsUpTo(LineSet, MaxLines), FormatOutputs, BOOLEAN)
    /\ RankingIdle
    /\ SlalomIdle
    /\ StreamIdle

SpecFormat == InitFormat /\ [][Next]_vars

InitRanking == HarnessIdle /\ RankingStart /\ SlalomIdle /\ StreamIdle

NextRanking == CallRanking /\ UNCHANGED <<hvars, svars, tvars>>

SpecRanking == InitRanking /\ [][NextRanking]_vars

InitSlalom == HarnessIdle /\ RankingIdle /\ SlalomStart /\ StreamIdle

NextSlalom == CallSlalom /\ UNCHANGED <<hvars, rvars, tvars>>

SpecSlalom == InitSlalom /\ [][NextSlalom]_vars

InitStream == HarnessIdle /\ RankingIdle /\ SlalomIdle /\ StreamStart

NextStream ==
    \/ MainStart /\ UNCHANGED <<hvars, rvars, svars>>
    \/ SkipCase /\ UNCHANGED <<hvars, rvars, svars>>
    \/ ProcessCase /\ UNCHANGED <<hvars, rvars, svars>>
    \/ InputEndOfFile /\ UNCHANGED <<hvars, rvars, svars>>
    \/ OutputEndOfFile /\ UNCHANGED <<hvars, rvars, svars>>

SpecStream == InitStream /\ [][NextStream]_vars


(***************************************************************************)
(* Properties of initialize().                                             *)
(***************************************************************************)
Initialized == phase = "initialized"

InitializeReturned == phase \in {"initialized", "failed"}

OutputIndices == DOMAIN outputs

CountsAgree == Len(inputs) = Cardinality(OutputIndices) /\ Len(inputs) # 0

\* The errors of validateFileLengths.
CountErrors == {"nocases", "mismatch"}

\* C1 as stated: when the parse functions do not fail, initialize() succeeds
\* iff the number of groups equals the number of distinct output indices and
\* is not zero, and every failure is a count error.
C1_CountErrorOnly ==
    (InitializeReturned /\ initError # "parse") =>
        /\ Initialized <=> CountsAgree
        /\ ~Initialized => initError \in CountErrors

\* C1 amended: initialize() succeeds iff the counts agree and are not zero;
\* a failure is a count error, or the format error of readInputFile, which
\* is raised in no-count mode only and leaves no group parsed.
C1_SucceedsIffCountsAgree ==
    (InitializeReturned /\ initError # "parse") =>
        /\ Initialized <=> CountsAgree
        /\ ~Initialized => initError \in CountErrors \cup {"format"}
        /\ initError = "format" => ~readInputCasesNumber /\ inputs = <<>>
        /\ initError = "nocases" <=> Len(inputs) = 0 /\ initError # "format"
        /\ initError = "mismatch" =>
               Len(inputs) # 0 /\ Len(inputs) # Cardinality(OutputIndices)

\* Three groups against two output indices: the count error.
C1_Witness ==
    /\ phase = "failed"
    /\ initError = "mismatch"
    /\ Len(inputs) = 3
    /\ Cardinality(OutputIndices) = 2

\* C2: after a successful initialize() the keys of the Expected Output Map
\* are exactly 1..N, N the number of groups.
C2_KeysAreOneToN == Initialized => OutputIndices = 1..Len(inputs)


(***************************************************************************)
(* Properties of the run operations.                                       *)
(***************************************************************************)
\* The indices 1..n in ascending order.
Ascending(n) == [i \in 1..n |-> i]

EveryIndexHasEntry == \A i \in 1..Len(inputs) : i \in OutputIndices

\* The elements of seq are strictly increasing.
StrictlyIncreasing(seq) == \A i \in 1..(Len(seq) - 1) : seq[i] < seq[i + 1]

\* C3: runner invokes the transform on every group once, in ascending index
\* order, when every index has an expected-output entry, whatever the
\* comparisons give; it raises only at an index that has no entry, after
\* visiting the indices before it; what it reports are visited indices.
C3_RunnerVisitsAll ==
    lastRun = "groups" =>
        /\ EveryIndexHasEntry => raisedAt = 0 /\ visited = Ascending(Len(inputs))
        /\ raisedAt # 0 =>
               raisedAt \notin OutputIndices /\ visited = Ascending(raisedAt - 1)
        /\ StrictlyIncreasing(reported)
        /\ \A k \in 1..Len(reported) : reported[k] \in 1..Len(visited)

\* A mismatch at test case 1 of 3 is reported and test cases 2 and 3 are
\* still visited.
C3_Witness ==
    /\ lastRun = "groups"
    /\ EveryIndexHasEntry
    /\ Len(inputs) = 3
    /\ reported = <<1>>
    /\ visited = <<1, 2, 3>>
    /\ raisedAt = 0

\* C4: simpleRunner raises for test case i only when the Expected Output Map
\* has no entry for i; with an entry, whatever its first record, the test
\* case is compared and the run goes on.
C4_SimpleRaisesOnlyWhenAbsent ==
    lastRun = "single" =>
        /\ raisedAt # 0 => raisedAt \notin OutputIndices
        /\ EveryIndexHasEntry => raisedAt = 0 /\ visited = Ascending(Len(inputs))

\* The groups of the given indices.
GroupsAt(indices) == [k \in 1..Len(indices) |-> inputs[indices[k]]]

Lines == NonBlank(inputContent)

\* One single-record group per line of ls, in line order.
OneGroupPerLine(ls) == [i \in 1..Len(ls) |-> <<parseInput(ls[i])>>]

\* The text is the canonical decimal rendering of a positive integer.
CanonicalPositive(t) ==
    /\ t # <<>>
    /\ \A i \in 1..Len(t) : IsDigit(t[i])
    /\ t[1] # "0"

\* C6 as stated: in simple-numeric mode every group has one record, the
\* groups follow the line order, and there are (lines - 1) groups under a
\* count line, (lines) groups without.
C6_SimpleCountMinusOne ==
    (InitializeReturned /\ IsSimpleNumbersFile(Lines)) =>
        /\ Len(inputs) = IF readInputCasesNumber THEN Len(Lines) - 1 ELSE Len(Lines)
        /\ inputs = OneGroupPerLine(SubSeq(Lines, Len(Lines) - Len(inputs) + 1, Len(Lines)))

\* C6 amended: as stated when the file has a non-blank line; a file without
\* one yields no group, count line expected or not.
C6_SimpleOneRecordPerLine ==
    (InitializeReturned /\ IsSimpleNumbersFile(Lines)) =>
        /\ Len(inputs) = IF readInputCasesNumber /\ Len(Lines) > 0
                         THEN Len(Lines) - 1 ELSE Len(Lines)
        /\ inputs = OneGroupPerLine(SubSeq(Lines, Len(Lines) - Len(inputs) + 1, Len(Lines)))

\* Three numeric lines under a count line: two groups.
C6_Witness ==
    /\ InitializeReturned
    /\ IsSimpleNumbersFile(Lines)
    /\ readInputCasesNumber
    /\ Len(Lines) = 3
    /\ Len(inputs) = 2

\* The grouped loop as C7 describes it: the line at the start of a block is
\* a marker iff it is the canonical rendering of a positive integer G, and
\* then the next G lines are the records; any other line is one record.
RECURSIVE ClaimedGroups(_, _, _, _, _)
ClaimedGroups(lines, count, testCase, currentLine, acc) ==
    IF ~LessThanCount(testCase, count) THEN acc
    ELSE
        LET line == LineAt(lines, currentLine)
            size == DigitsValue(Trim(line))
        IN  IF CanonicalPositive(Trim(line)) THEN
                ClaimedGroups(lines, count, testCase + 1, currentLine + 1 + size,
                    Append(acc, [i \in 1..size |-> parseInput(LineAt(lines, currentLine + i))]))
            ELSE
                ClaimedGroups(lines, count, testCase + 1, currentLine + 1,
                    Append(acc, <<parseInput(line)>>))

\* No record was read past the end of the file.
NoRecordPastEnd ==
    \A g \in 1..Len(inputs) : \A r \in 1..Len(inputs[g]) :
        inputs[g][r] # parseInput(Undefined)

\* C7: in grouped-with-count mode a block's first line is a group-size marker
\* iff its trimmed text is the canonical rendering of a positive integer;
\* "03", "3.0", "0" and "-2" are each the single record of their test case.
C7_MarkerIffCanonicalPositive ==
    (/\ InitializeReturned
     /\ initError # "parse"
     /\ readInputCasesNumber
     /\ ~IsSimpleNumbersFile(Lines)
     /\ NoRecordPastEnd) =>
        inputs = ClaimedGroups(Lines, ParseInt(Lines[1]), 0, 1, <<>>)

\* The line is a bare integer greater than 1.
BareIntegerAboveOne(line) ==
    CanonicalPositive(Trim(line)) /\ DigitsValue(Trim(line)) > 1

SomeLineAboveOne == \E i \in 1..Len(Lines) : BareIntegerAboveOne(Lines[i])

\* C8 as stated: without a count line initialize() fails with the format
\* error, no group parsed, whenever some line is a bare integer above 1;
\* otherwise every line is one single-record group.
C8_FormatErrorWheneverAboveOne ==
    (InitializeReturned /\ ~readInputCasesNumber) =>
        IF SomeLineAboveOne
        THEN initError = "format" /\ inputs = <<>>
        ELSE initError # "format" /\ inputs = OneGroupPerLine(Lines)

\* C8 amended: the format error is raised when some line is a bare integer
\* above 1 and the file is not simple-numeric (some line is not a number
\* that round-trips); otherwise every line is one single-record group.
C8_FormatErrorUnlessSimple ==
    (InitializeReturned /\ ~readInputCasesNumber) =>
        IF SomeLineAboveOne /\ ~IsSimpleNumbersFile(Lines)
        THEN initError = "format" /\ inputs = <<>>
        ELSE initError # "format" /\ inputs = OneGroupPerLine(Lines)

\* The format error: a marker-like line beside a line that is no number.
C8_Witness ==
    /\ phase = "failed"
    /\ ~readInputCasesNumber
    /\ initError = "format"
    /\ inputs = <<>>
    /\ Len(Lines) = 3


(***************************************************************************)
(* Properties of ranking.                                                  *)
(***************************************************************************)
\* The largest element of a non-empty set of integers.
SetMax(S) == CHOOSE x \in S : \A y \in S : y <= x

\* The participants by score, highest first, those of one score in the
\* order they have in ps.
RECURSIVE ByScoreKeepingOrder(_)
ByScoreKeepingOrder(ps) ==
    IF ps = <<>> THEN <<>>
    ELSE
        LET top == SetMax({ps[i][2] : i \in 1..Len(ps)})
        IN  SelectSeq(ps, LAMBDA q : q[2] = top) \o
            ByScoreKeepingOrder(SelectSeq(ps, LAMBDA q : q[2] # top))

\* The number of participants with a score above s.
StrictlyHigher(s) == Cardinality({j \in 1..Len(participants) : participants[j][2] > s})

\* C9: ranking returns the participants by score descending, equal scores in
\* input order, each with rank 1 + the number of participants with a
\* strictly higher score; the empty list gives the empty list.
C9_RankingOrderAndRanks ==
    rankDone =>
        /\ [i \in 1..Len(rankResult) |-> <<rankResult[i][2], rankResult[i][3]>>]
               = ByScoreKeepingOrder(participants)
        /\ \A i \in 1..Len(rankResult) :
               rankResult[i][1] = 1 + StrictlyHigher(rankResult[i][3])

\* Unsorted input with a tie: the tied share rank 1, the next gets rank 3.
C9_Witness ==
    /\ rankDone
    /\ participants = <<(<<"Alice", 90>>), <<"Bob", 100>>, <<"Alice", 100>>>>
    /\ rankResult = <<(<<1, "Bob", 100>>), <<1, "Alice", 100>>, <<3, "Alice", 90>>>>

(***************************************************************************)
(* Properties of slalom.                                                   *)
(***************************************************************************)
\* The best sum of a path from cell (row, col), 1-based, down to the last row.
RECURSIVE BestFrom(_, _, _)
BestFrom(m, row, col) ==
    m[row][col] +
    IF row = Len(m) THEN 0
    ELSE SetMax({BestFrom(m, row + 1, c) : c \in {col - 1, col, col + 1} \cap (1..Len(m[1]))})

\* The maximum over all paths from the first row.
BestPath(m) == SetMax({BestFrom(m, 1, c) : c \in 1..Len(m[1])})

\* C10: slalom returns the maximum path sum of a non-empty matrix, pruning
\* and memo table notwithstanding, and 0 for the empty matrix.
C10_SlalomIsBestPath ==
    slalomDone => slalomResult = IF matrix = <<>> THEN {0} ELSE {BestPath(matrix)}

\* A matrix whose best path changes column at every row.
C10_Witness ==
    /\ slalomDone
    /\ matrix = <<(<<2, -1>>), <<-1, 2>>, <<2, 0>>>>
    /\ slalomResult = {6}


(***************************************************************************)
(* Properties of the grouped branch of readInputFile.                      *)
(***************************************************************************)
\* The file is parsed by the grouped branch and its first line is a count.
GroupedWithCount ==
    /\ readInputCasesNumber
    /\ ~IsSimpleNumbersFile(Lines)
    /\ ~isNaN(ParseInt(Lines[1]))
    /\ ValueOf(ParseInt(Lines[1])) >= 0

\* The records of all groups, one after the other.
RECURSIVE Flatten(_)
Flatten(groups) ==
    IF groups = <<>> THEN <<>> ELSE Head(groups) \o Flatten(Tail(groups))

\* sub is made of elements of full, taken in order, none taken twice.
RECURSIVE IsSubsequence(_, _)
IsSubsequence(sub, full) ==
    IF sub = <<>> THEN TRUE
    ELSE IF full = <<>> THEN FALSE
    ELSE IF Head(sub) = Head(full) THEN IsSubsequence(Tail(sub), Tail(full))
    ELSE IsSubsequence(sub, Tail(full))

\* C11: in grouped-with-count mode with a first line N, parsing gives exactly
\* N groups; a block that starts with a marker G is a group of the G lines
\* after it, any other block a group of its one line; every record is the
\* parse of an existing line, and the records of all groups follow the line
\* order of the file, no line used twice.
C11_GroupsFollowTheFile ==
    (InitializeReturned /\ initError # "parse" /\ GroupedWithCount) =>
        /\ Len(inputs) = ValueOf(ParseInt(Lines[1]))
        /\ NoRecordPastEnd
        /\ inputs = ClaimedGroups(Lines, ParseInt(Lines[1]), 0, 1, <<>>)
        /\ IsSubsequence(Flatten(inputs),
                         [i \in 1..(Len(Lines) - 1) |-> parseInput(Lines[i + 1])])

(***************************************************************************)
(* Properties of the order of initialize().                                *)
(***************************************************************************)
LoadEvents == {"loadInput", "loadOutput"}

ParseEvents == {"parseInput", "parseOutput"}

\* Every event of kind first comes before every event of kind then.
AllBefore(first, then) ==
    \A i, j \in 1..Len(events) :
        (events[i] \in first /\ events[j] \in then) => i < j

\* C12: during initialize() both loads are done before any line of either
\* file is parsed, and the validation comes after both parses.
C12_LoadsBeforeParses ==
    InitializeReturned =>
        /\ AllBefore(LoadEvents, ParseEvents)
        /\ AllBefore(ParseEvents, {"validate"})

(***************************************************************************)
(* Properties of the streaming runner.                                     *)
(***************************************************************************)
MainExited == mainState \in {"returned", "rejected"}

NothingLeftOpen(g) == g.rl # "open" /\ g.fileStream # "open"

\* C13: when main has exited, by its return or by an error, every file stream
\* and every line reader that was opened has been closed.
C13_ClosedOnEveryExit ==
    MainExited => NothingLeftOpen(inputStream) /\ NothingLeftOpen(outputStream)

====
